---- MODULE Spec2Model ----
(***************************************************************************)
(* CaptionGenerator of src/core/model.py ("Show, Attend and Tell").        *)
(*                                                                         *)
(* The class builds a TensorFlow data-flow graph.  The model keeps that    *)
(* graph: a sequence of nodes [op, idx, val, args], where op names the     *)
(* operation (or the variable/placeholder), args are the operand tensors   *)
(* given by their position in the graph, and idx, val are the attributes   *)
(* of the node (an output index, a column, a constant, a flag).  A         *)
(* Python variable that holds a tensor holds the position of its node.     *)
(* Running the graph feeds the captions placeholder; the model follows one *)
(* example of the batch (every operation acts on the rows of a batch       *)
(* independently).  Tensor shapes other than T and L are not modelled.     *)
(***************************************************************************)
EXTENDS Integers, Sequences, FiniteSets, TLC

VARIABLES
    args,               \* the arguments __init__ is called with
    self,               \* the attributes stored on the instance (<<>>: none)
    graph,              \* the nodes created so far, in creation order
    pc,                 \* where the program is
    max_len,            \* build_sampler's argument
    t,                  \* loop counter of the running driver
    features_projected, \* the projected feature grid
    x,                  \* the word vectors (build_model: all T steps)
    captions_out, mask, \* build_model's target and mask matrices
    prev_h, prev_c,     \* recurrent state carried between steps
    loss,               \* build_model's running loss
    alpha_list,         \* attention maps collected so far
    sampled_word,       \* build_sampler's last argmax
    sampled_word_list,  \* build_sampler's collected argmaxes
    result,             \* what the driver returned (<<>>: nothing yet)
    feed,               \* the caption fed when the loss is run
    fetched             \* the sampled caption a run of the sampler gives

vars == <<args, self, graph, pc, max_len, t, features_projected, x,
          captions_out, mask, prev_h,
          prev_c, loss, alpha_list, sampled_word, sampled_word_list, result,
          feed, fetched>>

-----------------------------------------------------------------------------
(* Bounds of the model. *)
MaxT == 3
MaxLen == 2

(* The literal constants of the regularizer. *)
RegT == 16
RegL == 196

-----------------------------------------------------------------------------
(* The graph. *)
Node(op, idx, val, as) == [op |-> op, idx |-> idx, val |-> val, args |-> as]

(* a new node: the grown graph and the tensor (position) of the node *)
New(g, op, idx, val, as) ==
    [g |-> Append(g, Node(op, idx, val, as)), out |-> Len(g) + 1]

(* the variable or placeholder created under this name *)
Ref(g, name) == CHOOSE i \in DOMAIN g : g[i].op = name

(* e's value under the name F takes: the steps of a function body, in order *)
Bind(e, F(_)) == CHOOSE r \in {F(v) : v \in {e}} : TRUE

(* a Python name not bound to a tensor *)
Unbound == 0

(* Python's None *)
None == <<>>

-----------------------------------------------------------------------------
(* Inputs the model draws from. *)
NULL == "<NULL>"
START == "<START>"
END == "<END>"

Vocabularies ==
    { (NULL :> 0) @@ (START :> 1) @@ (END :> 2),
      (END :> 0) @@ (NULL :> 1) }

CellTypes == {"rnn", "lstm", "gru"}

(* L of dim_feature = [L, D]: a small grid and the default one *)
Locations == {2, 196}

(* (prev2out, ctx2out, selector) *)
Options == BOOLEAN \X BOOLEAN \X BOOLEAN

Arguments ==
    { [ word_to_idx |-> w, dim_feature |-> l, n_time_step |-> n,
        cell_type |-> c, prev2out |-> o[1], ctx2out |-> o[2],
        alpha_c |-> a, selector |-> o[3], use_dropout |-> d ] :
      w \in Vocabularies, l \in Locations, n \in 1..MaxT, c \in CellTypes,
      o \in Options, a \in {0, 1}, d \in BOOLEAN }

-----------------------------------------------------------------------------
(* __init__ *)

(* faulty variant: the check of cell_type left out *)
ValidCellTypeUnchecked(cell_type) == TRUE

ValidCellType(cell_type) == cell_type \in {"rnn", "lstm"}

dim_mul == ("rnn" :> 1) @@ ("lstm" :> 4)

(* faulty variant: word_to_idx.get('<START>', 0) *)
StartIndexDefaultZero(word_to_idx) ==
    IF START \in DOMAIN word_to_idx THEN <<word_to_idx[START]>> ELSE <<0>>

StartIndex(word_to_idx) ==
    IF START \in DOMAIN word_to_idx THEN <<word_to_idx[START]>> ELSE None

HyperParameters(a) ==
    [ cell_type   |-> a.cell_type,
      word_to_idx |-> a.word_to_idx,
      prev2out    |-> a.prev2out,
      ctx2out     |-> a.ctx2out,
      alpha_c     |-> a.alpha_c,
      selector    |-> a.selector,
      use_dropout |-> a.use_dropout,
      V           |-> Cardinality(DOMAIN a.word_to_idx),
      L           |-> a.dim_feature,
      T           |-> a.n_time_step,
      _null       |-> a.word_to_idx[NULL],
      _start      |-> StartIndex(a.word_to_idx) ]

InitStateWeights ==
    <<"W1_init_h", "b1_init_h", "W2_init_h", "b2_init_h",
      "W1_init_c", "b1_init_c", "W2_init_c", "b2_init_c">>

AttentionWeights == <<"W_proj_x", "W_proj_h", "b_proj", "W_att">>

CellWeights == <<"Wx", "Wh", "Wz", "b">>

OutputWeights(a) ==
    (IF a.ctx2out THEN <<"W_ctx2out">> ELSE <<>>)
    \o (IF a.selector THEN <<"W_sel", "b_sel">> ELSE <<>>)
    \o <<"W1_decode", "b1_decode", "W2_decode", "b2_decode">>

Placeholders == <<"features", "captions">>

Created(names) == [i \in DOMAIN names |-> Node(names[i], 0, 0, <<>>)]

Construct ==
    /\ pc = "start"
    /\ IF ~ValidCellType(args.cell_type)
       THEN /\ pc' = "ValueError"
            /\ UNCHANGED <<self, graph>>
       ELSE /\ self' = HyperParameters(args)
            /\ IF args.cell_type \notin DOMAIN dim_mul
               THEN /\ pc' = "KeyError"
                    /\ graph' = Created(<<"W_embed">> \o InitStateWeights
                                            \o AttentionWeights)
               ELSE /\ pc' = "constructed"
                    /\ graph' = Created(<<"W_embed">> \o InitStateWeights
                                            \o AttentionWeights \o CellWeights
                                            \o OutputWeights(args)
                                            \o Placeholders)
    /\ UNCHANGED <<args, max_len, t, features_projected, x, captions_out,
                   mask, prev_h, prev_c, loss, alpha_list, sampled_word, sampled_word_list, result,
                   feed, fetched>>

-----------------------------------------------------------------------------
(* The layer functions the drivers import from layers; each adds its nodes *)
(* to graph g and gives the grown graph and its output tensor(s).          *)

affine_forward(g, a, W, b) == New(g, "affine_forward", 0, 0, <<a, W, b>>)

affine_sigmoid_forward(g, a, W, b) ==
    New(g, "affine_sigmoid_forward", 0, 0, <<a, W, b>>)

dropout(g, a) == New(g, "dropout", 0, 0, <<a>>)

tanh(g, a) == New(g, "tanh", 0, 0, <<a>>)

(* val is the use_dropout argument of the call; "default" when the call   *)
(* leaves it out                                                           *)
init_lstm(g, a, W1, b1, W2, b2, use_dropout) ==
    New(g, "init_lstm", 0, use_dropout, <<a, W1, b1, W2, b2>>)

word_embedding_forward(g, idx, W_embed) ==
    New(g, "word_embedding_forward", 0, 0, <<idx, W_embed>>)

project_feature(g, features, W_proj_x) ==
    New(g, "project_feature", 0, 0, <<features, W_proj_x>>)

(* returns (context, alpha): outputs 0 and 1 of the same operands *)
attention_forward(g, features, projected, h, W_proj_h, b_proj, W_att) ==
    Bind(<<features, projected, h, W_proj_h, b_proj, W_att>>, LAMBDA as :
    Bind(New(g, "attention_forward", 0, 0, as), LAMBDA c :
    Bind(New(c.g, "attention_forward", 1, 0, as), LAMBDA a :
    [g |-> a.g, context |-> c.out, alpha |-> a.out])))

rnn_step_forward(g, a, h, context, Wx, Wh, Wz, b) ==
    New(g, "rnn_step_forward", 0, 0, <<a, h, context, Wx, Wh, Wz, b>>)

(* returns (next_h, next_c): outputs 0 and 1 of the same operands *)
lstm_step_forward(g, a, h, c, context, Wx, Wh, Wz, b) ==
    Bind(<<a, h, c, context, Wx, Wh, Wz, b>>, LAMBDA as :
    Bind(New(g, "lstm_step_forward", 0, 0, as), LAMBDA nh :
    Bind(New(nh.g, "lstm_step_forward", 1, 0, as), LAMBDA nc :
    [g |-> nc.g, next_h |-> nh.out, next_c |-> nc.out])))

(* cross-entropy of logits against target y, multiplied by the mask *)
softmax_loss(g, logits, y, m) == New(g, "softmax_loss", 0, 0, <<logits, y, m>>)

-----------------------------------------------------------------------------
(* What the two drivers share: the code is written out in each of them.    *)

(* initial hidden and cell state from the mean-pooled features *)
InitialState(g, use_dropout) ==
    Bind(New(g, "reduce_mean", 0, 0, <<Ref(g, "features")>>),
         LAMBDA mean_features :
    Bind(init_lstm(mean_features.g, mean_features.out,
                   Ref(g, "W1_init_h"), Ref(g, "b1_init_h"),
                   Ref(g, "W2_init_h"), Ref(g, "b2_init_h"), use_dropout),
         LAMBDA h :
    Bind(init_lstm(h.g, mean_features.out,
                   Ref(g, "W1_init_c"), Ref(g, "b1_init_c"),
                   Ref(g, "W2_init_c"), Ref(g, "b2_init_c"), use_dropout),
         LAMBDA c :
    [g |-> c.g, prev_h |-> h.out, prev_c |-> c.out])))

(* attention on the carried state h, then the selector gate *)
Attend(g, slf, projected, h) ==
    Bind(attention_forward(g, Ref(g, "features"), projected, h,
                           Ref(g, "W_proj_h"), Ref(g, "b_proj"),
                           Ref(g, "W_att")),
         LAMBDA att :
    IF slf.selector
    THEN Bind(affine_sigmoid_forward(att.g, h, Ref(g, "W_sel"),
                                     Ref(g, "b_sel")),
              LAMBDA beta :
         Bind(New(beta.g, "mul", 0, 0, <<beta.out, att.context>>),
              LAMBDA gated :
         [g |-> gated.g, context |-> gated.out, alpha |-> att.alpha]))
    ELSE att)

(* faulty variant: the cell state is computed but not carried *)
CellDropsCellState(g, slf, a, h, c, context) ==
    IF slf.cell_type = "rnn"
    THEN Bind(rnn_step_forward(g, a, h, context, Ref(g, "Wx"), Ref(g, "Wh"),
                               Ref(g, "Wz"), Ref(g, "b")),
              LAMBDA n :
         [g |-> n.g, h |-> n.out, prev_h |-> n.out, prev_c |-> c])
    ELSE Bind(lstm_step_forward(g, a, h, c, context, Ref(g, "Wx"),
                                Ref(g, "Wh"), Ref(g, "Wz"), Ref(g, "b")),
              LAMBDA n :
         [g |-> n.g, h |-> n.next_h, prev_h |-> n.next_h, prev_c |-> c])

(* faulty variant: the hidden state carried on is the step's old one *)
CellCarriesOldHidden(g, slf, a, h, c, context) ==
    IF slf.cell_type = "rnn"
    THEN Bind(rnn_step_forward(g, a, h, context, Ref(g, "Wx"), Ref(g, "Wh"),
                               Ref(g, "Wz"), Ref(g, "b")),
              LAMBDA n :
         [g |-> n.g, h |-> n.out, prev_h |-> h, prev_c |-> c])
    ELSE Bind(lstm_step_forward(g, a, h, c, context, Ref(g, "Wx"),
                                Ref(g, "Wh"), Ref(g, "Wz"), Ref(g, "b")),
              LAMBDA n :
         [g |-> n.g, h |-> n.next_h, prev_h |-> h, prev_c |-> n.next_c])

(* rnn/lstm forward prop: the output h of the cell, and the state to carry *)
Cell(g, slf, a, h, c, context) ==
    IF slf.cell_type = "rnn"
    THEN Bind(rnn_step_forward(g, a, h, context, Ref(g, "Wx"), Ref(g, "Wh"),
                               Ref(g, "Wz"), Ref(g, "b")),
              LAMBDA n :
         [g |-> n.g, h |-> n.out, prev_h |-> n.out, prev_c |-> c])
    ELSE Bind(lstm_step_forward(g, a, h, c, context, Ref(g, "Wx"),
                                Ref(g, "Wh"), Ref(g, "Wz"), Ref(g, "b")),
              LAMBDA n :
         [g |-> n.g, h |-> n.next_h, prev_h |-> n.next_h,
          prev_c |-> n.next_c])

(* logits += x; logits += tf.matmul(context, W_ctx2out) *)
AddInputs(g, slf, l0, xx, context) ==
    Bind(IF slf.prev2out
         THEN New(g, "add", 0, 0, <<l0, xx>>)
         ELSE [g |-> g, out |-> l0],
         LAMBDA l1 :
    IF slf.ctx2out
    THEN Bind(New(l1.g, "matmul", 0, 0, <<context, Ref(g, "W_ctx2out")>>),
              LAMBDA mm :
         New(mm.g, "add", 0, 0, <<l1.out, mm.out>>))
    ELSE l1)

-----------------------------------------------------------------------------
(* build_model *)

(* captions[:, :T], captions[:, 1:] and the mask: idx is the first column  *)
(* kept, val the number of columns kept                                    *)
CaptionsIn(g, slf) == New(g, "slice", 0, slf.T, <<Ref(g, "captions")>>)

(* faulty variant: the targets are not shifted, captions[:, :T] *)
CaptionsOutUnshifted(g, slf) ==
    New(g, "slice", 0, slf.T, <<Ref(g, "captions")>>)

CaptionsOut(g, slf) == New(g, "slice", 1, slf.T, <<Ref(g, "captions")>>)

(* faulty variant: a mask that is true at every position *)
MaskNothing(g, slf, cout) == New(g, "not_equal", 0, -1, <<cout>>)

(* tf.not_equal(captions_out, self._null): val is the index compared with *)
Mask(g, slf, cout) == New(g, "not_equal", 0, slf._null, <<cout>>)

(* m[:, tt] (and m[:, tt, :]) *)
Column(g, m, tt) == New(g, "column", tt, 0, <<m>>)

(* the lines of build_model before its loop *)
ModelSetup(g, slf) ==
    Bind(New(g, "shape0", 0, 0, <<Ref(g, "features")>>), LAMBDA batch_size :
    Bind(CaptionsIn(batch_size.g, slf), LAMBDA cin :
    Bind(CaptionsOut(cin.g, slf), LAMBDA cout :
    Bind(Mask(cout.g, slf, cout.out), LAMBDA m :
    Bind(InitialState(m.g, IF slf.use_dropout THEN "True" ELSE "False"),
         LAMBDA s0 :
    Bind(word_embedding_forward(s0.g, cin.out, Ref(g, "W_embed")), LAMBDA emb :
    Bind(project_feature(emb.g, Ref(g, "features"), Ref(g, "W_proj_x")),
         LAMBDA proj :
    Bind(New(proj.g, "const", 0, 0, <<>>), LAMBDA zero :
    [g |-> zero.g, captions_out |-> cout.out, mask |-> m.out,
     prev_h |-> s0.prev_h, prev_c |-> s0.prev_c, x |-> emb.out,
     features_projected |-> proj.out, loss |-> zero.out]))))))))

(* the dropout on the hidden state the decoder reads *)
ModelHidden(g, slf, next_h) ==
    IF slf.use_dropout THEN dropout(g, next_h) ELSE [g |-> g, out |-> next_h]

(* hidden-to-embed, embed-to-vocab *)
ModelDecode(g, slf, next_h, xx, tt, context) ==
    Bind(affine_forward(g, next_h, Ref(g, "W1_decode"), Ref(g, "b1_decode")),
         LAMBDA l0 :
    Bind(IF slf.prev2out THEN Column(l0.g, xx, tt) ELSE [g |-> l0.g, out |-> xx],
         LAMBDA xt :
    Bind(AddInputs(xt.g, slf, l0.out, xt.out, context), LAMBDA logits :
    Bind(tanh(logits.g, logits.out), LAMBDA logits_h :
    Bind(dropout(logits_h.g, logits_h.out), LAMBDA dropped :
    affine_forward(dropped.g, dropped.out, Ref(g, "W2_decode"),
                   Ref(g, "b2_decode")))))))

(* one pass of build_model's loop *)
ModelStep(g, slf, projected, xx, cout, m, tt, h, c, ls) ==
    Bind(Attend(g, slf, projected, h), LAMBDA att :
    Bind(Column(att.g, xx, tt), LAMBDA xt :
    Bind(Cell(xt.g, slf, xt.out, h, c, att.context), LAMBDA cell :
    Bind(ModelHidden(cell.g, slf, cell.h), LAMBDA next_h :
    Bind(ModelDecode(next_h.g, slf, next_h.out, xx, tt, att.context),
         LAMBDA logits_out :
    Bind(Column(logits_out.g, cout, tt), LAMBDA y :
    Bind(Column(y.g, m, tt), LAMBDA mt :
    Bind(softmax_loss(mt.g, logits_out.out, y.out, mt.out), LAMBDA term :
    Bind(New(term.g, "add", 0, 0, <<ls, term.out>>), LAMBDA sum :
    [g |-> sum.g, alpha |-> att.alpha, prev_h |-> cell.prev_h,
     prev_c |-> cell.prev_c, loss |-> sum.out])))))))))

(* doubly stochastic regularization; idx / val of the target is 16. / 196 *)
AlphaReg(g, slf, alist) ==
    Bind(New(g, "pack", 0, 0, alist), LAMBDA packed :
    Bind(New(packed.g, "transpose", 0, 0, <<packed.out>>), LAMBDA alphas :
    Bind(New(alphas.g, "reduce_sum", 0, 0, <<alphas.out>>), LAMBDA alphas_all :
    Bind(New(alphas_all.g, "const_ratio", RegT, RegL, <<>>), LAMBDA target :
    Bind(New(target.g, "sub", 0, 0, <<target.out, alphas_all.out>>),
         LAMBDA diff :
    Bind(New(diff.g, "square", 0, 0, <<diff.out>>), LAMBDA sq :
    Bind(New(sq.g, "reduce_sum", 0, 0, <<sq.out>>), LAMBDA total :
    Bind(New(total.g, "const", 0, slf.alpha_c, <<>>), LAMBDA coeff :
    New(coeff.g, "mul", 0, 0, <<coeff.out, total.out>>)))))))))

(* batch_size is the tf.shape(features)[0] taken before the loop *)
ModelReturn(g, slf, ls, alist) ==
    Bind(IF slf.alpha_c > 0
         THEN Bind(AlphaReg(g, slf, alist), LAMBDA alpha_reg :
              New(alpha_reg.g, "add", 0, 0, <<ls, alpha_reg.out>>))
         ELSE [g |-> g, out |-> ls],
         LAMBDA total :
    New(total.g, "div", 0, 0, <<total.out, Ref(g, "shape0")>>))

BuildModel ==
    /\ pc = "constructed"
    /\ \E r \in {ModelSetup(graph, self)} :
          /\ graph' = r.g
          /\ captions_out' = r.captions_out
          /\ mask' = r.mask
          /\ prev_h' = r.prev_h
          /\ prev_c' = r.prev_c
          /\ x' = r.x
          /\ features_projected' = r.features_projected
          /\ loss' = r.loss
    /\ alpha_list' = <<>>
    /\ t' = 0
    /\ pc' = "build_model"
    /\ UNCHANGED <<args, self, max_len, sampled_word, sampled_word_list,
                   result, feed, fetched>>

BuildModelStep ==
    /\ pc = "build_model"
    /\ t < self.T
    /\ \E r \in {ModelStep(graph, self, features_projected, x, captions_out,
                           mask, t, prev_h, prev_c, loss)} :
          /\ graph' = r.g
          /\ alpha_list' = Append(alpha_list, r.alpha)
          /\ prev_h' = r.prev_h
          /\ prev_c' = r.prev_c
          /\ loss' = r.loss
    /\ t' = t + 1
    /\ UNCHANGED <<args, self, pc, max_len, features_projected, x,
                   captions_out, mask, sampled_word, sampled_word_list,
                   result, feed, fetched>>

BuildModelReturn ==
    /\ pc = "build_model"
    /\ t = self.T
    /\ \E ret \in {ModelReturn(graph, self, loss, alpha_list)} :
          /\ graph' = ret.g
          /\ result' = <<ret.out>>
    /\ pc' = "model_built"
    /\ UNCHANGED <<args, self, max_len, t, features_projected, x,
                   captions_out, mask, prev_h, prev_c, loss, alpha_list,
                   sampled_word, sampled_word_list, feed, fetched>>

(* a run of the loss on a fed caption of T+1 word indices in [0, V) *)
RunModel ==
    /\ pc = "model_built"
    /\ feed' \in [1..(self.T + 1) -> 0..(self.V - 1)]
    /\ pc' = "model_run"
    /\ UNCHANGED <<args, self, graph, max_len, t, features_projected, x,
                   captions_out, mask, prev_h, prev_c, loss, alpha_list,
                   sampled_word, sampled_word_list, result, fetched>>

-----------------------------------------------------------------------------
(* build_sampler *)

(* faulty variant: range(max_len - 1) *)
SamplerRangeShort(n) == 0..(n - 2)

(* range(max_len) *)
SamplerRange(n) == 0..(n - 1)

(* the lines of build_sampler before its loop *)
SamplerSetup(g) ==
    Bind(InitialState(g, "default"), LAMBDA s0 :
    Bind(project_feature(s0.g, Ref(g, "features"), Ref(g, "W_proj_x")),
         LAMBDA proj :
    [g |-> proj.g, prev_h |-> s0.prev_h, prev_c |-> s0.prev_c,
     features_projected |-> proj.out]))

(* faulty variant: <START> embedded at every step *)
SamplerInputAlwaysStart(g, slf, tt, sw) ==
    Bind(New(g, "shape0", 0, 0, <<Ref(g, "features")>>), LAMBDA n :
    New(n.g, "fill", 0, slf._start[1], <<n.out>>))

(* the index tensor embedded at step tt: <START> for every example of the  *)
(* batch at step 0, the previous generated word afterwards                 *)
SamplerInput(g, slf, tt, sw) ==
    IF tt = 0
    THEN Bind(New(g, "shape0", 0, 0, <<Ref(g, "features")>>), LAMBDA n :
         New(n.g, "fill", 0, slf._start[1], <<n.out>>))
    ELSE [g |-> g, out |-> sw]

(* scores (logits) from the current hidden state *)
SamplerDecode(g, slf, h, xx, context) ==
    Bind(affine_forward(g, h, Ref(g, "W1_decode"), Ref(g, "b1_decode")),
         LAMBDA l0 :
    Bind(AddInputs(l0.g, slf, l0.out, xx, context), LAMBDA logits :
    Bind(tanh(logits.g, logits.out), LAMBDA logits_h :
    affine_forward(logits_h.g, logits_h.out, Ref(g, "W2_decode"),
                   Ref(g, "b2_decode")))))

(* one pass of build_sampler's loop *)
SamplerStep(g, slf, projected, tt, h, c, sw) ==
    Bind(SamplerInput(g, slf, tt, sw), LAMBDA word :
    Bind(word_embedding_forward(word.g, word.out, Ref(g, "W_embed")),
         LAMBDA emb :
    Bind(Attend(emb.g, slf, projected, h), LAMBDA att :
    Bind(Cell(att.g, slf, emb.out, h, c, att.context), LAMBDA cell :
    Bind(SamplerDecode(cell.g, slf, cell.h, emb.out, att.context),
         LAMBDA logits_out :
    Bind(New(logits_out.g, "argmax", 0, 0, <<logits_out.out>>), LAMBDA am :
    [g |-> am.g, x |-> emb.out, alpha |-> att.alpha, prev_h |-> cell.prev_h,
     prev_c |-> cell.prev_c, sampled_word |-> am.out]))))))

(* alphas and sampled_captions *)
SamplerReturn(g, alist, wlist) ==
    Bind(New(g, "pack", 0, 0, alist), LAMBDA pa :
    Bind(New(pa.g, "transpose", 0, 0, <<pa.out>>), LAMBDA alphas :
    Bind(New(alphas.g, "pack", 0, 0, wlist), LAMBDA pw :
    Bind(New(pw.g, "transpose", 0, 0, <<pw.out>>), LAMBDA sampled_captions :
    [g |-> sampled_captions.g,
     out |-> <<alphas.out, sampled_captions.out>>]))))

BuildSampler ==
    /\ pc = "constructed"
    /\ max_len' \in 0..MaxLen
    /\ \E r \in {SamplerSetup(graph)} :
          /\ graph' = r.g
          /\ prev_h' = r.prev_h
          /\ prev_c' = r.prev_c
          /\ features_projected' = r.features_projected
    /\ sampled_word_list' = <<>>
    /\ alpha_list' = <<>>
    /\ t' = 0
    /\ pc' = "build_sampler"
    /\ UNCHANGED <<args, self, x, captions_out, mask, loss, sampled_word,
                   result, feed, fetched>>

BuildSamplerStep ==
    /\ pc = "build_sampler"
    /\ t \in SamplerRange(max_len)
    /\ IF t = 0 /\ self._start = None
       THEN \* tf.fill cannot convert None to a tensor
            /\ pc' = "sampler_error"
            /\ UNCHANGED <<graph, t, x, prev_h, prev_c, alpha_list,
                           sampled_word, sampled_word_list>>
       ELSE \E r \in {SamplerStep(graph, self, features_projected, t, prev_h,
                                  prev_c, sampled_word)} :
                /\ graph' = r.g
                /\ x' = r.x
                /\ alpha_list' = Append(alpha_list, r.alpha)
                /\ prev_h' = r.prev_h
                /\ prev_c' = r.prev_c
                /\ sampled_word' = r.sampled_word
                /\ sampled_word_list' = Append(sampled_word_list, r.sampled_word)
                /\ t' = t + 1
                /\ pc' = pc
    /\ UNCHANGED <<args, self, max_len, features_projected, captions_out,
                   mask, loss, result, feed, fetched>>

BuildSamplerReturn ==
    /\ pc = "build_sampler"
    /\ t \notin SamplerRange(max_len)
    /\ IF alpha_list = <<>>
       THEN \* tf.pack of no tensor has rank 1: transpose by (1, 0, 2) fails
            /\ pc' = "sampler_error"
            /\ UNCHANGED <<graph, result>>
       ELSE \E ret \in {SamplerReturn(graph, alpha_list, sampled_word_list)} :
                /\ graph' = ret.g
                /\ result' = ret.out
                /\ pc' = "sampler_built"
    /\ UNCHANGED <<args, self, max_len, t, features_projected, x,
                   captions_out, mask, prev_h, prev_c, loss, alpha_list,
                   sampled_word, sampled_word_list, feed, fetched>>

(* the operands of the pack under a stacked (transposed) result *)
Packed(g, stacked) == g[g[stacked].args[1]].args

(* a run of sampled_captions: every argmax gives some word index in [0, V) *)
RunSampler ==
    /\ pc = "sampler_built"
    /\ \E word \in [{i \in DOMAIN graph : graph[i].op = "argmax"}
                        -> 0..(self.V - 1)] :
          fetched' = [i \in DOMAIN Packed(graph, result[2]) |->
                         word[Packed(graph, result[2])[i]]]
    /\ pc' = "sampler_run"
    /\ UNCHANGED <<args, self, graph, max_len, t, features_projected, x,
                   captions_out, mask, prev_h, prev_c, loss, alpha_list,
                   sampled_word, sampled_word_list, result, feed>>

-----------------------------------------------------------------------------
Init ==
    /\ args \in Arguments
    /\ self = <<>>
    /\ graph = <<>>
    /\ pc = "start"
    /\ max_len = 0
    /\ t = 0
    /\ features_projected = Unbound
    /\ x = Unbound
    /\ captions_out = Unbound
    /\ mask = Unbound
    /\ prev_h = Unbound
    /\ prev_c = Unbound
    /\ loss = Unbound
    /\ alpha_list = <<>>
    /\ sampled_word = Unbound
    /\ sampled_word_list = <<>>
    /\ result = <<>>
    /\ feed = <<>>
    /\ fetched = <<>>

Next ==
    \/ Construct
    \/ BuildModel
    \/ BuildModelStep
    \/ BuildModelReturn
    \/ RunModel
    \/ BuildSampler
    \/ BuildSamplerStep
    \/ BuildSamplerReturn
    \/ RunSampler

Spec == Init /\ [][Next]_vars

-----------------------------------------------------------------------------
(* Reading the graph. *)

Range(f) == {f[i] : i \in DOMAIN f}

(* the nodes of a kind, and the k-th of them in creation order *)
NodesOf(g, ops, idx) == {i \in DOMAIN g : g[i].op \in ops /\ g[i].idx = idx}

Nth(S, k) == CHOOSE i \in S : Cardinality({j \in S : j <= i}) = k

(* every node the tensors in roots are computed from (themselves included), *)
(* not looking through the nodes in cut; a node's operands are created      *)
(* before it, so one sweep from the newest node down to the oldest (nodes   *)
(* lo..hi) collects them                                                    *)
RECURSIVE Sweep(_, _, _, _, _)
Sweep(g, lo, hi, S, cut) ==
    IF lo > hi THEN S
    ELSE IF lo = hi
         THEN IF lo \in S \ cut THEN S \cup Range(g[lo].args) ELSE S
         ELSE Bind(Sweep(g, ((lo + hi) \div 2) + 1, hi, S, cut),
                   LAMBDA S1 : Sweep(g, lo, (lo + hi) \div 2, S1, cut))

Ancestors(g, roots) == Sweep(g, 1, Len(g), roots, {})

(* the caption column that column 0 of index matrix i holds; None when i is *)
(* not cut from the captions placeholder                                    *)
RECURSIVE Origin(_, _)
Origin(g, i) ==
    IF g[i].op = "captions" THEN <<0>>
    ELSE IF g[i].op \in {"slice", "not_equal", "word_embedding_forward"}
         THEN Bind(Origin(g, g[i].args[1]), LAMBDA o :
              IF o = None THEN None
              ELSE <<o[1] + (IF g[i].op = "slice" THEN g[i].idx ELSE 0)>>)
         ELSE None

(* the caption column that a column node i selects *)
CaptionColumn(g, i) ==
    IF g[i].op # "column" THEN None
    ELSE Bind(Origin(g, g[i].args[1]), LAMBDA o :
         IF o = None THEN None ELSE <<o[1] + g[i].idx>>)

Cells(g) == NodesOf(g, {"rnn_step_forward", "lstm_step_forward"}, 0)

Embeddings(g) == NodesOf(g, {"word_embedding_forward"}, 0)

Argmaxes(g) == NodesOf(g, {"argmax"}, 0)

InSampler == pc \in {"build_sampler", "sampler_built"}

InModel == pc \in {"build_model", "model_built"}

HasStart == START \in DOMAIN args.word_to_idx

-----------------------------------------------------------------------------
(* C7: a cell_type other than 'rnn' or 'lstm' is rejected by __init__ with *)
(* a ValueError before any hyper-parameter is stored and before any weight *)
(* or placeholder is created, never later; 'rnn' and 'lstm' are accepted.  *)
C7_RejectedAtConstruction ==
    /\ args.cell_type \notin {"rnn", "lstm"} =>
          /\ pc \in {"start", "ValueError"}
          /\ self = <<>>
          /\ graph = <<>>
    /\ args.cell_type \in {"rnn", "lstm"} =>
          /\ pc \notin {"ValueError", "KeyError"}
          /\ pc # "start" => self # <<>> /\ graph # <<>>

C7_Witness ==
    /\ pc = "ValueError"
    /\ args.cell_type = "gru"
    /\ self = <<>>
    /\ graph = <<>>

-----------------------------------------------------------------------------
(* C10: a vocabulary without <START> is accepted by __init__ (the start    *)
(* index is None) and build_model builds the same graph whatever the start *)
(* index is, but build_sampler fails at step 0, before it embeds anything, *)
(* and returns no sampled caption.                                         *)
C10_NoStartToken ==
    /\ (~HasStart /\ args.cell_type \in {"rnn", "lstm"} /\ pc # "start") =>
          /\ pc \notin {"ValueError", "KeyError"}
          /\ self._start = None
    /\ (~HasStart /\ pc \in {"build_sampler", "sampler_error"}) =>
          /\ t = 0
          /\ Embeddings(graph) = {}
          /\ result = <<>>
    /\ ~HasStart => pc \notin {"sampler_built", "sampler_run"}
    /\ (pc = "build_model" /\ t < self.T) =>
          \A st \in {None, <<0>>, <<1>>} :
             ModelStep(graph, [self EXCEPT !._start = st], features_projected,
                       x, captions_out, mask, t, prev_h, prev_c, loss)
             = ModelStep(graph, self, features_projected, x, captions_out,
                         mask, t, prev_h, prev_c, loss)

C10_Witness ==
    /\ ~HasStart
    /\ pc = "sampler_error"
    /\ max_len = MaxLen
    /\ self._start = None

-----------------------------------------------------------------------------
(* C1 as stated: for every max_len >= 0 and every vocabulary build_sampler *)
(* runs max_len steps and returns max_len words and max_len attention maps. *)
C1_AlwaysReturnsMaxLen ==
    /\ pc # "sampler_error"
    /\ pc \in {"sampler_built", "sampler_run"} =>
          /\ Len(Packed(graph, result[1])) = max_len
          /\ Len(Packed(graph, result[2])) = max_len

(* C1 as amended: for every max_len >= 1, every cell variant and a         *)
(* vocabulary that contains <START>, build_sampler does not fail, runs     *)
(* exactly max_len steps and returns exactly max_len sampled words and     *)
(* max_len attention maps, one of each step; a run gives max_len word      *)
(* indices whatever they are (an <END> among them shortens nothing).  It   *)
(* fails only for max_len = 0 or a vocabulary without <START>.             *)
C1_ReturnsMaxLen ==
    /\ pc = "sampler_error" => (max_len = 0 \/ ~HasStart)
    /\ pc = "build_sampler" =>
          /\ t <= max_len
          /\ Len(sampled_word_list) = t
          /\ Len(alpha_list) = t
    /\ pc \in {"sampler_built", "sampler_run"} =>
          /\ max_len >= 1
          /\ HasStart
          /\ t = max_len
    /\ pc = "sampler_built" =>
          /\ Cardinality(Cells(graph)) = max_len
          /\ Cardinality(Argmaxes(graph)) = max_len
          /\ Len(Packed(graph, result[1])) = max_len
          /\ Len(Packed(graph, result[2])) = max_len
          /\ \A k \in 1..max_len :
                /\ Packed(graph, result[2])[k] = Nth(Argmaxes(graph), k)
                /\ Packed(graph, result[1])[k]
                      = Nth(NodesOf(graph, {"attention_forward"}, 1), k)
    /\ pc = "sampler_run" => Len(fetched) = max_len

C1_Witness ==
    /\ pc = "sampler_run"
    /\ max_len = MaxLen
    /\ Len(fetched) = MaxLen
    /\ fetched[1] = args.word_to_idx[END]

-----------------------------------------------------------------------------
(* C2: in build_sampler the index tensor embedded at step 0 is <START>     *)
(* filled over the batch, the one embedded at step k > 0 is the argmax of  *)
(* step k-1's logits, each step's cell reads the embedding of its own      *)
(* step, and nothing the sampler builds reads the captions placeholder.    *)
C2_FeedsOwnPrediction ==
    InSampler =>
       /\ Cardinality(Embeddings(graph)) = Cardinality(Cells(graph))
       /\ Cardinality(Embeddings(graph)) = Len(sampled_word_list)
       /\ \A k \in 1..Cardinality(Embeddings(graph)) :
             LET word == graph[Nth(Embeddings(graph), k)].args[1]
             IN  /\ graph[Nth(Cells(graph), k)].args[1]
                       = Nth(Embeddings(graph), k)
                 /\ k = 1 => /\ graph[word].op = "fill"
                             /\ graph[word].val = args.word_to_idx[START]
                 /\ k > 1 => /\ word = sampled_word_list[k - 1]
                             /\ graph[word].op = "argmax"
                             /\ word = Nth(Argmaxes(graph), k - 1)
                             /\ Nth(Cells(graph), k - 1)
                                   \in Ancestors(graph, {word})
       /\ \A i \in DOMAIN graph :
             Ref(graph, "captions") \notin Range(graph[i].args)

C2_Witness ==
    /\ pc = "sampler_built"
    /\ max_len = MaxLen
    /\ Cardinality(Embeddings(graph)) = MaxLen
    /\ graph[graph[Nth(Embeddings(graph), 2)].args[1]].op = "argmax"

-----------------------------------------------------------------------------
(* Reading build_model's loss *)

LossTerms(g) == NodesOf(g, {"softmax_loss"}, 0)

(* whether the mask column m is true on the fed caption fd *)
MaskTrue(g, fd, m) ==
    fd[CaptionColumn(g, m)[1] + 1] # g[g[m].args[1]].val

(* the loss terms that the mask multiplies by zero on the fed caption *)
Masked(g, fd) == {s \in LossTerms(g) : ~MaskTrue(g, fd, g[s].args[3])}

(* the nodes the tensors in roots are computed from on the fed caption:    *)
(* nothing is looked up through a loss term multiplied by zero             *)
Live(g, fd, roots) == Sweep(g, 1, Len(g), roots, Masked(g, fd))

(* the caption columns whose word index the tensors in roots are computed  *)
(* from on the fed caption, as a teacher-forced input or as a target       *)
ColumnsRead(g, fd, roots) ==
    Bind(Live(g, fd, roots), LAMBDA live :
    { CaptionColumn(g, i)[1] :
        i \in { j \in live : /\ g[j].op = "column"
                             /\ CaptionColumn(g, j) # None
                             /\ g[g[j].args[1]].op # "not_equal" } })

(* the caption positions 1..T of the fed caption that hold <NULL> *)
Padding == { j \in 1..self.T : feed[j + 1] = args.word_to_idx[NULL] }

-----------------------------------------------------------------------------
(* C3: build_model runs exactly T steps; step t (0-based) embeds column t  *)
(* of the captions as its input, scores its logits against column t + 1,   *)
(* and its loss term is counted exactly when column t + 1 is not <NULL>;   *)
(* build_model never takes an argmax.                                      *)
C3_TeacherForcing ==
    /\ InModel =>
          /\ t <= self.T
          /\ pc = "model_built" => t = self.T
          /\ Cardinality(LossTerms(graph)) = t
          /\ Cardinality(Cells(graph)) = t
          /\ Argmaxes(graph) = {}
          /\ \A k \in 1..t :
                LET term == graph[Nth(LossTerms(graph), k)]
                    xt   == graph[Nth(Cells(graph), k)].args[1]
                IN  /\ graph[graph[xt].args[1]].op = "word_embedding_forward"
                    /\ CaptionColumn(graph, xt) = <<k - 1>>
                    /\ Nth(Cells(graph), k)
                          \in Ancestors(graph, {term.args[1]})
                    /\ graph[graph[term.args[2]].args[1]].op = "slice"
                    /\ CaptionColumn(graph, term.args[2]) = <<k>>
                    /\ graph[graph[term.args[3]].args[1]].op = "not_equal"
                    /\ graph[graph[term.args[3]].args[1]].val
                          = args.word_to_idx[NULL]
                    /\ CaptionColumn(graph, term.args[3]) = <<k>>
    /\ pc = "model_run" =>
          \A k \in 1..self.T :
             MaskTrue(graph, feed, graph[Nth(LossTerms(graph), k)].args[3])
             <=> feed[k + 1] # args.word_to_idx[NULL]

C3_Witness ==
    /\ pc = "model_run"
    /\ self.T = MaxT
    /\ feed[2] # args.word_to_idx[NULL]
    /\ feed[MaxT + 1] = args.word_to_idx[NULL]
    /\ Cardinality(Masked(graph, feed)) = 1

-----------------------------------------------------------------------------
-----------------------------------------------------------------------------
(* C5 as stated: with alpha_c > 0 the penalty build_model adds is          *)
(* alpha_c * sum((T/L - total attention mass)^2), the target being the     *)
(* ratio T/L of the instance's n_time_step and number of locations.        *)
C5_RegulariserTarget ==
    (pc = "model_built" /\ self.alpha_c > 0) =>
       \E i \in Ancestors(graph, {result[1]}) :
          /\ graph[i].op = "sub"
          /\ graph[graph[i].args[1]].op = "const_ratio"
          /\ graph[graph[i].args[1]].idx * self.L
                = graph[graph[i].args[1]].val * self.T

-----------------------------------------------------------------------------
(* C6 as stated: with use_dropout false nothing build_model's loss is      *)
(* computed from is a dropout or a state initializer asked to drop out,    *)
(* and build_sampler never creates either.                                 *)
C6_NoDropoutWhenDisabled ==
    /\ (pc = "model_built" /\ ~self.use_dropout) =>
          \A i \in Ancestors(graph, {result[1]}) :
             /\ graph[i].op # "dropout"
             /\ graph[i].op = "init_lstm" => graph[i].val = "False"
    /\ InSampler =>
          \A i \in DOMAIN graph :
             /\ graph[i].op # "dropout"
             /\ graph[i].op = "init_lstm" => graph[i].val # "True"

-----------------------------------------------------------------------------
(* Reading the recurrent state *)

(* the node of kind op computed from node i alone, or i when there is none *)
Through(g, i, op) ==
    IF \E j \in DOMAIN g : g[j].op = op /\ g[j].args = <<i>>
    THEN CHOOSE j \in DOMAIN g : g[j].op = op /\ g[j].args = <<i>>
    ELSE i

(* the initial state init_lstm computes with second-layer weight W2 *)
InitialOf(g, W2) ==
    CHOOSE j \in DOMAIN g : g[j].op = "init_lstm" /\ g[j].args[4] = Ref(g, W2)

(* the hidden state the k-th step of the loop hands on (k = 0: initial) *)
Carried(g, k) == IF k = 0 THEN InitialOf(g, "W2_init_h") ELSE Nth(Cells(g), k)

(* the cell state the k-th step of an lstm hands on *)
CarriedCell(g, k) ==
    IF k = 0 THEN InitialOf(g, "W2_init_c")
    ELSE Nth(NodesOf(g, {"lstm_step_forward"}, 1), k)

(* the first layer of the decoder at each step *)
Decoders(g) ==
    { i \in DOMAIN g : /\ g[i].op = "affine_forward"
                       /\ g[i].args[2] = Ref(g, "W1_decode") }

CellInitNames == {"W1_init_c", "b1_init_c", "W2_init_c", "b2_init_c"}

-----------------------------------------------------------------------------
(* C8 as stated: with cell_type 'rnn' there is no cell state: no cell-init *)
(* weight is created, no initial cell state is computed and none is        *)
(* carried; with 'lstm' there is one.                                      *)
C8_CellStateOnlyForLstm ==
    /\ (args.cell_type = "rnn" /\ pc # "start") =>
          /\ \A i \in DOMAIN graph : graph[i].op \notin CellInitNames
          /\ prev_c = Unbound
    /\ (args.cell_type = "lstm" /\ (InModel \/ InSampler)) =>
          prev_c = CarriedCell(graph, t)

(* C8 as amended: the four cell-init weights are created and an initial    *)
(* cell state is computed from the mean features for both variants.  With  *)
(* 'rnn' that state is never read and never replaced: no step takes it as  *)
(* an operand and prev_c stays the initial one.  With 'lstm' the hidden    *)
(* and the cell state both start from the mean features, every step reads  *)
(* both states of the step before and replaces both by its two outputs.    *)
C8_CellStateCarriedOnlyForLstm ==
    /\ pc \in {"constructed", "build_model", "model_built", "build_sampler",
               "sampler_built"} =>
          \A w \in CellInitNames : \E i \in DOMAIN graph : graph[i].op = w
    /\ (InModel \/ InSampler) =>
          /\ graph[InitialOf(graph, "W2_init_c")].args[1]
                = Ref(graph, "reduce_mean")
          /\ graph[InitialOf(graph, "W2_init_h")].args[1]
                = Ref(graph, "reduce_mean")
          /\ Cardinality(Cells(graph)) = t
    /\ (args.cell_type = "rnn" /\ (InModel \/ InSampler)) =>
          /\ prev_c = InitialOf(graph, "W2_init_c")
          /\ \A i \in DOMAIN graph : prev_c \notin Range(graph[i].args)
          /\ NodesOf(graph, {"lstm_step_forward"}, 1) = {}
    /\ (args.cell_type = "lstm" /\ (InModel \/ InSampler)) =>
          /\ prev_h = Carried(graph, t)
          /\ prev_c = CarriedCell(graph, t)
          /\ \A k \in 1..t :
                /\ graph[Carried(graph, k)].args[2] = Carried(graph, k - 1)
                /\ graph[Carried(graph, k)].args[3]
                      = CarriedCell(graph, k - 1)
                /\ graph[CarriedCell(graph, k)].args
                      = graph[Carried(graph, k)].args

C8_Witness ==
    /\ args.cell_type = "rnn"
    /\ pc = "model_built"
    /\ t = MaxT
    /\ prev_c = InitialOf(graph, "W2_init_c")
    /\ Cardinality(Cells(graph)) = MaxT

-----------------------------------------------------------------------------
(* C9: the hidden state handed to the next step is the cell's own output,  *)
(* taken before build_model's dropout; step k's attention and selector     *)
(* read the state handed on by step k-1 (the initial state at the first    *)
(* step), as does step k's cell; step k's decoder reads the output of step *)
(* k's cell (through the dropout in build_model when use_dropout is set).  *)
C9_CarriedStateIsCellOutput ==
    (InModel \/ InSampler) =>
       /\ Cardinality(Cells(graph)) = t
       /\ Cardinality(Decoders(graph)) = t
       /\ Len(alpha_list) = t
       /\ prev_h = Carried(graph, t)
       /\ graph[prev_h].op # "dropout"
       /\ \A k \in 1..t :
             /\ graph[Carried(graph, k)].args[2] = Carried(graph, k - 1)
             /\ alpha_list[k] = Nth(NodesOf(graph, {"attention_forward"}, 1), k)
             /\ graph[alpha_list[k]].args[3] = Carried(graph, k - 1)
             /\ graph[Nth(NodesOf(graph, {"attention_forward"}, 0), k)].args[3]
                   = Carried(graph, k - 1)
             /\ self.selector =>
                   graph[Nth(NodesOf(graph, {"affine_sigmoid_forward"}, 0),
                             k)].args[1] = Carried(graph, k - 1)
             /\ graph[Nth(Decoders(graph), k)].args[1]
                   = IF InModel /\ self.use_dropout
                     THEN Through(graph, Carried(graph, k), "dropout")
                     ELSE Carried(graph, k)
             /\ (InModel /\ self.use_dropout) =>
                   graph[graph[Nth(Decoders(graph), k)].args[1]].op = "dropout"

C9_Witness ==
    /\ pc = "model_built"
    /\ self.use_dropout
    /\ self.selector
    /\ args.cell_type = "lstm"
    /\ t = MaxT
    /\ prev_h = Nth(Cells(graph), MaxT)
    /\ graph[graph[Nth(Decoders(graph), MaxT)].args[1]].op = "dropout"

====
